---- MODULE Spec2Model ----
(***************************************************************************)
(* Booking ledger and date-availability engine of the Property API.        *)
(* State: the Property registry, the Booking collection (MongoDB           *)
(* documents), the id generator, the response of the request handled last,  *)
(* the create/update requests that have passed their availability read but  *)
(* not yet written, the Review collection, and the accounts of the          *)
(* identity provider (Firebase Authentication) with their role claims.      *)
(* Dates are instants counted in half days (DayLen = 2 units per day);      *)
(* timestamps set by the handlers are abstracted to set / NoVal.            *)
(***************************************************************************)
EXTENDS Integers, FiniteSets, Sequences, TLC

VARIABLES properties, bookings, nextId, last, inflight, reviews, accounts

vars == <<properties, bookings, nextId, last, inflight, reviews, accounts>>

-----------------------------------------------------------------------------
(* Bounds *)

MaxBookings == 2
MaxDate == 3
MaxInflight == 2
MaxReviews == 2
MaxPhotos == 3
MaxTasks == 3

(* 1000 * 60 * 60 * 24 ms, in model time units *)
DayLen == 2

(* absent / undefined / null: of a string field, and of a number, date or id *)
NoVal == "none"
Nil == 0 - 1000

Dates == 0..MaxDate
BookingIds == 1..MaxBookings

-----------------------------------------------------------------------------
(* Users and the property registry (fixed while bookings are handled) *)

Users == {"guest", "other", "host", "admin"}

(* the users who place bookings *)
Guests == {"guest"}

Role(u) == IF u = "admin" THEN "admin" ELSE "user"

PropertyIds == {1, 2}

(* the ids a request can name: the registry's and one that resolves to nothing *)
RequestedPropertyIds == PropertyIds \cup {9}

(* Property documents: property 1 takes bookings, inside one of two windows; *)
(* property 2 is marked unavailable                                          *)
Registries ==
  { [p \in PropertyIds |->
       IF p = 1
         THEN [price |-> 2, isAvailable |-> TRUE, availableFrom |-> w[1],
               availableTo |-> w[2], createdBy |-> "host", images |-> <<>>]
         ELSE [price |-> 3, isAvailable |-> FALSE, availableFrom |-> 0,
               availableTo |-> Nil, createdBy |-> "host", images |-> <<>>]]
    : w \in {<<1, Nil>>, <<0, 2>>} }

-----------------------------------------------------------------------------
(* Booking schema *)

StatusEnum == {"pending", "confirmed", "cancelled", "completed"}
PaymentStatusEnum == {"pending", "partial", "paid", "refunded", "failed"}

(* nested path paymentProof: always an object, verified defaults to false *)
DefaultProof == [url |-> NoVal, verified |-> FALSE, verifiedAt |-> NoVal, verifiedBy |-> NoVal]

(* truthiness of booking.paymentProof: an object is truthy whatever it holds *)
Truthy(proof) ==
  proof \in [url : {NoVal, "set"}, verified : BOOLEAN, verifiedAt : {NoVal, "set"},
            verifiedBy : {NoVal} \cup Users]

(* Math.ceil(n / d) for d > 0 *)
Ceil(n, d) == 0 - ((0 - n) \div d)

Nights(s, e) == Ceil(e - s, DayLen)

(* schema validation run by save() / create() / runValidators *)
Validates(b) == b.status \in StatusEnum /\ b.paymentStatus \in PaymentStatusEnum

(* pre('save') hook: recompute totalPrice when dates are modified or totalPrice is falsy *)
PreSave(b, datesModified) ==
  IF ~datesModified /\ b.totalPrice # 0
    THEN b
    ELSE [b EXCEPT !.totalPrice = properties[b.property].price * Nights(b.startDate, b.endDate)]

Stored == DOMAIN bookings

(* the $or of the conflict query, on one stored booking *)
Conflicts(b, s, e) ==
  \/ (b.startDate < e /\ b.startDate >= s)
  \/ (b.endDate > s /\ b.endDate <= e)
  \/ (b.startDate <= s /\ b.endDate >= e)

isAvailableForDates(p, s, e) ==
  IF ~properties[p].isAvailable THEN FALSE
  ELSE IF s < properties[p].availableFrom THEN FALSE
  ELSE IF properties[p].availableTo # Nil /\ e > properties[p].availableTo THEN FALSE
  ELSE ~\E id \in Stored :
          /\ bookings[id].property = p
          /\ bookings[id].status # "cancelled"
          /\ Conflicts(bookings[id], s, e)

isDateRangeAvailable(p, s, e, excludeBookingId) ==
  ~\E id \in Stored :
      /\ bookings[id].property = p
      /\ bookings[id].status # "cancelled"
      /\ Conflicts(bookings[id], s, e)
      /\ (excludeBookingId # Nil => id # excludeBookingId)

(* booking owner, property owner, or admin *)
IsAuthorized(b, u) ==
  ~(b.user # u /\ properties[b.property].createdBy # u /\ Role(u) # "admin")

(* authorize(...roles) of the booking routes *)
authorize(roles, u) == Role(u) \in roles

Resp(op, code, detail) == [op |-> op, code |-> code, detail |-> detail]

-----------------------------------------------------------------------------
(* Requests *)

(* req.body of createBooking beyond the dates: fields the schema also stores *)
CreateBodies ==
  [status : {NoVal, "confirmed", "checked_in"}, paymentStatus : {NoVal}]

PlainBody == [status |-> NoVal, paymentStatus |-> NoVal]

(* req.body of createBooking: plain, or naming the final status *)
FinalBodies == [status : {NoVal, "completed"}, paymentStatus : {NoVal}]

(* a totalPrice no property charges for any stay *)
BogusPrices == {7}

(* req.body of updateBooking: a date edit *)
DatePatches ==
  [startDate : Dates \cup {Nil}, endDate : Dates \cup {Nil}, status : {NoVal}, totalPrice : {Nil}]

(* req.body of updateBooking: other stored fields *)
FieldPatches ==
  [startDate : {Nil}, endDate : {Nil},
   status : {NoVal} \cup StatusEnum \cup {"checked_in"}, totalPrice : {Nil} \cup BogusPrices]

(* req.body of updateBooking: the lifecycle status alone *)
StatusPatches == {pt \in FieldPatches : pt.totalPrice = Nil}

(* the patch that puts a booking back to pending *)
ReopenPatches == {pt \in FieldPatches : pt.status = "pending" /\ pt.totalPrice = Nil}

(* the patch that zeroes the stored price *)
ZeroPricePatches == {pt \in [startDate : {Nil}, endDate : {Nil}, status : {NoVal},
                             totalPrice : {0}] : TRUE}

(* a collection without, and with, the document under key k *)
Without(f, k) == [i \in DOMAIN f \ {k} |-> f[i]]

With(f, k, v) == [i \in DOMAIN f \cup {k} |-> IF i = k THEN v ELSE f[i]]

(* a || b on an optional number, date or id, and on an optional string *)
Or(a, b) == IF a # Nil THEN a ELSE b
OrStr(a, b) == IF a # NoVal THEN a ELSE b

-----------------------------------------------------------------------------
(* createBooking *)

(* the reads of createBooking: 0 when the request goes on to write *)
createBookingRead(p, s, e) ==
  IF p \notin DOMAIN properties THEN 404
  ELSE IF ~isAvailableForDates(p, s, e) THEN 400
  ELSE 0

(* the document Booking.create builds from req.body and the schema defaults *)
NewBooking(u, p, s, e, body) ==
  [property |-> p, user |-> u, startDate |-> s, endDate |-> e,
   totalPrice |-> properties[p].price * Nights(s, e),
   status |-> OrStr(body.status, "pending"),
   paymentStatus |-> OrStr(body.paymentStatus, "pending"),
   paymentProof |-> DefaultProof,
   checkIn |-> NoVal, checkOut |-> NoVal, cancelledAt |-> NoVal]

(* Booking.create(req.body) and the 201 response *)
createBookingWrite(u, p, s, e, body) ==
  LET doc == NewBooking(u, p, s, e, body) IN
  IF ~Validates(doc)
    THEN /\ last' = Resp("createBooking", 400, "ValidationError")
         /\ UNCHANGED <<bookings, nextId>>
    ELSE /\ nextId <= MaxBookings
         /\ bookings' = [id \in Stored \cup {nextId} |->
                           IF id = nextId THEN PreSave(doc, TRUE) ELSE bookings[id]]
         /\ nextId' = nextId + 1
         /\ last' = Resp("createBooking", 201, NoVal)

createBooking(u, p, s, e, body) ==
  /\ UNCHANGED <<accounts, properties, reviews, inflight>>
  /\ IF createBookingRead(p, s, e) # 0
       THEN /\ last' = Resp("createBooking", createBookingRead(p, s, e), NoVal)
            /\ UNCHANGED <<bookings, nextId>>
       ELSE createBookingWrite(u, p, s, e, body)

-----------------------------------------------------------------------------
(* updateBooking *)

PatchDates(b, patch) ==
  [startDate |-> Or(patch.startDate, b.startDate), endDate |-> Or(patch.endDate, b.endDate)]

(* the reads of updateBooking: 0 when the request goes on to write *)
updateBookingRead(u, id, patch) ==
  IF id \notin Stored THEN 404
  ELSE IF ~IsAuthorized(bookings[id], u) THEN 401
  ELSE IF (patch.startDate # Nil \/ patch.endDate # Nil)
          /\ ~isDateRangeAvailable(bookings[id].property,
                                   PatchDates(bookings[id], patch).startDate,
                                   PatchDates(bookings[id], patch).endDate, id)
    THEN 400
  ELSE 0

(* req.body after the handler recalculated totalPrice from the populated booking it read *)
UpdateBody(b, patch) ==
  IF patch.startDate # Nil \/ patch.endDate # Nil
    THEN [patch EXCEPT !.totalPrice =
            properties[b.property].price
              * Nights(PatchDates(b, patch).startDate, PatchDates(b, patch).endDate)]
    ELSE patch

(* $set of the body's fields on the stored document *)
ApplyPatch(b, body) ==
  [b EXCEPT !.startDate = Or(body.startDate, @),
            !.endDate = Or(body.endDate, @),
            !.status = OrStr(body.status, @),
            !.totalPrice = Or(body.totalPrice, @)]

(* Booking.findByIdAndUpdate(id, req.body, {new, runValidators}) and the 200 response *)
updateBookingWrite(id, body) ==
  IF id \notin Stored
    THEN /\ last' = Resp("updateBooking", 200, NoVal)
         /\ UNCHANGED <<bookings, nextId>>
  ELSE IF ~Validates(ApplyPatch(bookings[id], body))
    THEN /\ last' = Resp("updateBooking", 400, "ValidationError")
         /\ UNCHANGED <<bookings, nextId>>
    ELSE /\ bookings' = [bookings EXCEPT ![id] = ApplyPatch(@, body)]
         /\ last' = Resp("updateBooking", 200, NoVal)
         /\ UNCHANGED nextId

updateBooking(u, id, patch) ==
  /\ UNCHANGED <<accounts, properties, reviews, inflight>>
  /\ IF updateBookingRead(u, id, patch) # 0
       THEN /\ last' = Resp("updateBooking", updateBookingRead(u, id, patch), NoVal)
            /\ UNCHANGED <<bookings, nextId>>
       ELSE updateBookingWrite(id, UpdateBody(bookings[id], patch))

-----------------------------------------------------------------------------
(* cancelBooking *)

(* the instants a request can arrive at: two days, one day and no time before date 0 *)
Nows == {0 - 2 * DayLen, 0 - DayLen, 0}

(* booking.save(): validation, the pre('save') hook, then the write; FALSE when rejected *)
Saves(doc) == Validates(doc)

cancel(b) == [b EXCEPT !.status = "cancelled", !.cancelledAt = "set"]

cancelBooking(u, id, now) ==
  /\ UNCHANGED <<accounts, properties, reviews, nextId, inflight>>
  /\ IF id \notin Stored
       THEN /\ last' = Resp("cancelBooking", 404, NoVal)
            /\ UNCHANGED bookings
     ELSE IF ~IsAuthorized(bookings[id], u)
       THEN /\ last' = Resp("cancelBooking", 401, NoVal)
            /\ UNCHANGED bookings
     ELSE IF Ceil(bookings[id].startDate - now, DayLen) < 2 /\ Role(u) # "admin"
       THEN /\ last' = Resp("cancelBooking", 400, NoVal)
            /\ UNCHANGED bookings
     ELSE /\ bookings' = [bookings EXCEPT ![id] = PreSave(cancel(@), FALSE)]
          /\ last' = Resp("cancelBooking", 200, NoVal)

-----------------------------------------------------------------------------
(* deleteBooking: the booking is not populated, so booking.property.createdBy *)
(* is undefined and the ownership test throws once its first conjunct holds   *)

deleteBooking(u, id) ==
  /\ UNCHANGED <<accounts, properties, reviews, nextId, inflight>>
  /\ IF id \notin Stored
       THEN /\ last' = Resp("deleteBooking", 404, NoVal)
            /\ UNCHANGED bookings
     ELSE IF bookings[id].user # u
       THEN /\ last' = Resp("deleteBooking", 500, "TypeError")
            /\ UNCHANGED bookings
     ELSE /\ bookings' = [i \in Stored \ {id} |-> bookings[i]]
          /\ last' = Resp("deleteBooking", 200, NoVal)

-----------------------------------------------------------------------------
(* uploadPaymentProof *)

Files == {NoVal, "text", "largeImage", "image"}

(* what a request brings and whether the media store takes it: the store is *)
(* reached with an image of accepted size only                              *)
Uploads == {up \in Files \X BOOLEAN : up[1] # "image" => up[2]}

(* the proof counted as verified whoever uploads it *)
attachProof_AlwaysVerified(b, u) ==
  [b EXCEPT !.paymentProof = [url |-> "set", verified |-> TRUE, verifiedAt |-> "set",
                              verifiedBy |-> u],
            !.paymentStatus = "paid"]

(* the paymentProof and paymentStatus written after the media store took the file *)
attachProof(b, u) ==
  [b EXCEPT !.paymentProof =
              [url |-> "set",
               verified |-> (Role(u) = "admin"),
               verifiedAt |-> IF Role(u) = "admin" THEN "set" ELSE NoVal,
               verifiedBy |-> IF Role(u) = "admin" THEN u ELSE NoVal],
            !.paymentStatus = IF Role(u) = "admin" THEN "paid" ELSE "pending"]

uploadPaymentProof(u, id, file, uploaded) ==
  /\ UNCHANGED <<accounts, properties, reviews, nextId, inflight>>
  /\ IF id \notin Stored
       THEN /\ last' = Resp("uploadPaymentProof", 404, NoVal)
            /\ UNCHANGED bookings
     ELSE IF bookings[id].user # u /\ Role(u) # "admin"
       THEN /\ last' = Resp("uploadPaymentProof", 401, NoVal)
            /\ UNCHANGED bookings
     ELSE IF file # "image"
       THEN /\ last' = Resp("uploadPaymentProof", 400, NoVal)
            /\ UNCHANGED bookings
     ELSE IF ~uploaded
       THEN /\ last' = Resp("uploadPaymentProof", 500, NoVal)
            /\ UNCHANGED bookings
     ELSE /\ bookings' = [bookings EXCEPT ![id] = PreSave(attachProof(@, u), FALSE)]
          /\ last' = Resp("uploadPaymentProof", 200, NoVal)

-----------------------------------------------------------------------------
(* verifyPayment, checkIn, checkOut: admin-only routes *)

verify(b, u) ==
  [b EXCEPT !.paymentProof = [@ EXCEPT !.verified = TRUE, !.verifiedAt = "set", !.verifiedBy = u],
            !.paymentStatus = "paid",
            !.status = IF @ = "pending" THEN "confirmed" ELSE @]

(* the verify-payment route without its authorize('admin') *)
verifyPayment_OpenRoute(u, id) ==
  /\ UNCHANGED <<accounts, properties, reviews, nextId, inflight>>
  /\ IF id \notin Stored
       THEN /\ last' = Resp("verifyPayment", 404, NoVal)
            /\ UNCHANGED bookings
     ELSE IF ~Truthy(bookings[id].paymentProof)
       THEN /\ last' = Resp("verifyPayment", 400, NoVal)
            /\ UNCHANGED bookings
     ELSE /\ bookings' = [bookings EXCEPT ![id] = PreSave(verify(@, u), FALSE)]
          /\ last' = Resp("verifyPayment", 200, NoVal)

verifyPayment(u, id) ==
  /\ UNCHANGED <<accounts, properties, reviews, nextId, inflight>>
  /\ IF ~authorize({"admin"}, u)
       THEN /\ last' = Resp("verifyPayment", 403, NoVal)
            /\ UNCHANGED bookings
     ELSE IF id \notin Stored
       THEN /\ last' = Resp("verifyPayment", 404, NoVal)
            /\ UNCHANGED bookings
     ELSE IF ~Truthy(bookings[id].paymentProof)
       THEN /\ last' = Resp("verifyPayment", 400, NoVal)
            /\ UNCHANGED bookings
     ELSE /\ bookings' = [bookings EXCEPT ![id] = PreSave(verify(@, u), FALSE)]
          /\ last' = Resp("verifyPayment", 200, NoVal)

checkInDoc(b) == [b EXCEPT !.checkIn = "set", !.status = "checked_in"]

(* checkIn without its status guard *)
checkIn_Unguarded(u, id) ==
  /\ UNCHANGED <<accounts, properties, reviews, nextId, inflight>>
  /\ IF ~authorize({"admin"}, u)
       THEN /\ last' = Resp("checkIn", 403, NoVal)
            /\ UNCHANGED bookings
     ELSE IF id \notin Stored
       THEN /\ last' = Resp("checkIn", 404, NoVal)
            /\ UNCHANGED bookings
     ELSE IF ~Saves(checkInDoc(bookings[id]))
       THEN /\ last' = Resp("checkIn", 400, "ValidationError")
            /\ UNCHANGED bookings
     ELSE /\ bookings' = [bookings EXCEPT ![id] = PreSave(checkInDoc(@), FALSE)]
          /\ last' = Resp("checkIn", 200, NoVal)

checkIn(u, id) ==
  /\ UNCHANGED <<accounts, properties, reviews, nextId, inflight>>
  /\ IF ~authorize({"admin"}, u)
       THEN /\ last' = Resp("checkIn", 403, NoVal)
            /\ UNCHANGED bookings
     ELSE IF id \notin Stored
       THEN /\ last' = Resp("checkIn", 404, NoVal)
            /\ UNCHANGED bookings
     ELSE IF bookings[id].status # "confirmed"
       THEN /\ last' = Resp("checkIn", 400, bookings[id].status)
            /\ UNCHANGED bookings
     ELSE IF ~Saves(checkInDoc(bookings[id]))
       THEN /\ last' = Resp("checkIn", 400, "ValidationError")
            /\ UNCHANGED bookings
     ELSE /\ bookings' = [bookings EXCEPT ![id] = PreSave(checkInDoc(@), FALSE)]
          /\ last' = Resp("checkIn", 200, NoVal)

checkOutDoc(b) == [b EXCEPT !.checkOut = "set", !.status = "completed"]

checkOut(u, id) ==
  /\ UNCHANGED <<accounts, properties, reviews, nextId, inflight>>
  /\ IF ~authorize({"admin"}, u)
       THEN /\ last' = Resp("checkOut", 403, NoVal)
            /\ UNCHANGED bookings
     ELSE IF id \notin Stored
       THEN /\ last' = Resp("checkOut", 404, NoVal)
            /\ UNCHANGED bookings
     ELSE IF bookings[id].status # "checked_in"
       THEN /\ last' = Resp("checkOut", 400, bookings[id].status)
            /\ UNCHANGED bookings
     ELSE IF ~Saves(checkOutDoc(bookings[id]))
       THEN /\ last' = Resp("checkOut", 400, "ValidationError")
            /\ UNCHANGED bookings
     ELSE /\ bookings' = [bookings EXCEPT ![id] = PreSave(checkOutDoc(@), FALSE)]
          /\ last' = Resp("checkOut", 200, NoVal)

-----------------------------------------------------------------------------
(* Review schema, its unique index and the rating aggregates *)

ReviewIds == 1..MaxReviews

Reviewed == DOMAIN reviews

(* schema validation of a review: booking and rating required, rating within min..max *)
ValidatesReview(r) == r.booking # Nil /\ r.rating # Nil /\ r.rating >= 1 /\ r.rating <= 5

(* a collection no index guards *)
UniqueIndex_Absent(revs) == TRUE

(* the unique index on (booking, user) admits the collection *)
UniqueIndex(revs) ==
  \A i \in DOMAIN revs : \A j \in DOMAIN revs :
    (revs[i].booking = revs[j].booking /\ revs[i].user = revs[j].user) => i = j

(* error middleware: the status of an error a handler lets through *)
errorHandler(err) == IF err \in {"ValidationError", "E11000"} THEN 400 ELSE 500

(* nested path reply: always an object, its fields unset until written *)
DefaultReply == [text |-> NoVal, user |-> NoVal]

(* truthiness of review.reply: an object is truthy whatever it holds *)
TruthyReply(reply) == reply \in [text : {NoVal, "set"}, user : {NoVal} \cup Users]

(* $match { property } *)
Matching(revs, p) == {r \in DOMAIN revs : revs[r].property = p}

(* $sum of rating over a set of reviews *)
RECURSIVE SumRatings(_, _)
SumRatings(revs, S) ==
  IF S = {} THEN 0
  ELSE LET r == CHOOSE x \in S : TRUE IN revs[r].rating + SumRatings(revs, S \ {r})

(* the update calculateAverageRating sends: averageRating counted in tenths *)
calculateAverageRating(revs, p) ==
  LET S == Matching(revs, p) IN
  IF S # {}
    THEN [averageRating |-> Ceil(10 * SumRatings(revs, S), Cardinality(S)),
          numberOfReviews |-> Cardinality(S)]
    ELSE [averageRating |-> 0, numberOfReviews |-> 0]

(* the update calcAverageRatings sends: ratingsAverage as the fraction num / den *)
calcAverageRatings(revs, p) ==
  LET S == Matching(revs, p) IN
  IF S # {}
    THEN [ratingsQuantity |-> Cardinality(S),
          ratingsAverage |-> [num |-> SumRatings(revs, S), den |-> Cardinality(S)]]
    ELSE [ratingsQuantity |-> 0, ratingsAverage |-> [num |-> 9, den |-> 2]]

(* Property.findByIdAndUpdate(p, update) under the strict propertySchema: only *)
(* the paths the schema declares are set                                      *)
PropertyUpdate(props, p, update) ==
  IF p \notin DOMAIN props THEN props
  ELSE [props EXCEPT ![p] =
          [f \in DOMAIN props[p] |-> IF f \in DOMAIN update THEN update[f] ELSE props[p][f]]]

(* both recomputations a write to the Review collection leads to *)
Recompute(props, revs, p, hook) ==
  PropertyUpdate(IF hook THEN PropertyUpdate(props, p, calcAverageRatings(revs, p)) ELSE props,
                 p, calculateAverageRating(revs, p))

(* review.user once the pre(/^find/) hook populated it: a document, whose *)
(* toString() is not an id                                                *)
PopulatedToString(u) == "document"

-----------------------------------------------------------------------------
(* addReview, updateReview, deleteReview *)

(* the users who send review requests *)
Reviewers == {"guest", "admin"}

(* the ratings a request carries: 6 lies beyond max *)
RequestRatings == {1, 4, 6}

(* req.body of addReview: the booking it names (any id, or none) and the rating *)
ReviewBodies == [booking : BookingIds \cup {Nil}, rating : RequestRatings]

(* req.body of updateReview: a new rating, a new booking, or both *)
ReviewPatches ==
  [booking : BookingIds \cup {Nil}, rating : RequestRatings \cup {Nil}]
    \ {[booking |-> Nil, rating |-> Nil]}

(* the Booking.findOne of addReview: checkIn and checkOut default to null, so *)
(* both $exists tests hold of every booking, and the second checkOut key      *)
(* replaces the $lte test                                                     *)
HasCompletedBooking(u, p) ==
  \E b \in Stored :
    /\ bookings[b].user = u
    /\ bookings[b].property = p
    /\ bookings[b].status = "completed"

(* the Review.findOne of addReview *)
HasReviewed(u, p) == \E r \in Reviewed : reviews[r].user = u /\ reviews[r].property = p

NewReview(u, p, body) ==
  [property |-> p, user |-> u, booking |-> body.booking, rating |-> body.rating,
   reply |-> DefaultReply]

addReview(u, p, body) ==
  /\ UNCHANGED <<accounts, bookings, nextId, inflight>>
  /\ IF p \notin DOMAIN properties
       THEN /\ last' = Resp("addReview", 404, NoVal)
            /\ UNCHANGED <<reviews, properties>>
     ELSE IF ~HasCompletedBooking(u, p) /\ Role(u) # "admin"
       THEN /\ last' = Resp("addReview", 401, NoVal)
            /\ UNCHANGED <<reviews, properties>>
     ELSE IF HasReviewed(u, p)
       THEN /\ last' = Resp("addReview", 400, "reviewed")
            /\ UNCHANGED <<reviews, properties>>
     ELSE IF ~ValidatesReview(NewReview(u, p, body))
       THEN /\ last' = Resp("addReview", errorHandler("ValidationError"), "ValidationError")
            /\ UNCHANGED <<reviews, properties>>
     ELSE /\ ReviewIds \ Reviewed # {}
          /\ LET rid == CHOOSE x \in ReviewIds \ Reviewed :
                           \A y \in ReviewIds \ Reviewed : x <= y
                 revs == With(reviews, rid, NewReview(u, p, body))
             IN IF ~UniqueIndex(revs)
                  THEN /\ last' = Resp("addReview", errorHandler("E11000"), "E11000")
                       /\ UNCHANGED <<reviews, properties>>
                  ELSE /\ reviews' = revs
                       /\ properties' = Recompute(properties, revs, p, TRUE)
                       /\ last' = Resp("addReview", 201, NoVal)

(* $set of the body's fields on the stored review *)
ApplyReviewPatch(r, body) ==
  [r EXCEPT !.booking = Or(body.booking, @), !.rating = Or(body.rating, @)]

updateReview(u, id, body) ==
  /\ UNCHANGED <<accounts, bookings, nextId, inflight>>
  /\ IF id \notin Reviewed
       THEN /\ last' = Resp("updateReview", 404, NoVal)
            /\ UNCHANGED <<reviews, properties>>
     ELSE IF PopulatedToString(reviews[id].user) # u /\ Role(u) # "admin"
       THEN /\ last' = Resp("updateReview", 401, NoVal)
            /\ UNCHANGED <<reviews, properties>>
     ELSE IF ~ValidatesReview(ApplyReviewPatch(reviews[id], body))
       THEN /\ last' = Resp("updateReview", errorHandler("ValidationError"), "ValidationError")
            /\ UNCHANGED <<reviews, properties>>
     ELSE LET revs == [reviews EXCEPT ![id] = ApplyReviewPatch(@, body)] IN
          IF ~UniqueIndex(revs)
            THEN /\ last' = Resp("updateReview", errorHandler("E11000"), "E11000")
                 /\ UNCHANGED <<reviews, properties>>
            ELSE /\ reviews' = revs
                 /\ properties' = Recompute(properties, revs, revs[id].property, TRUE)
                 /\ last' = Resp("updateReview", 200, NoVal)

deleteReview(u, id) ==
  /\ UNCHANGED <<accounts, bookings, nextId, inflight>>
  /\ IF id \notin Reviewed
       THEN /\ last' = Resp("deleteReview", 404, NoVal)
            /\ UNCHANGED <<reviews, properties>>
     ELSE IF PopulatedToString(reviews[id].user) # u /\ Role(u) # "admin"
       THEN /\ last' = Resp("deleteReview", 401, NoVal)
            /\ UNCHANGED <<reviews, properties>>
     ELSE /\ reviews' = Without(reviews, id)
          /\ properties' = Recompute(properties, Without(reviews, id), reviews[id].property, FALSE)
          /\ last' = Resp("deleteReview", 200, NoVal)

-----------------------------------------------------------------------------
(* replyToReview, deleteReviewReply *)

(* the users who send reply requests: the property owner, an admin, a guest *)
Repliers == {"host", "admin", "guest"}

replyToReview(u, id) ==
  /\ UNCHANGED <<accounts, properties, bookings, nextId, inflight>>
  /\ IF id \notin Reviewed
       THEN /\ last' = Resp("replyToReview", 404, NoVal)
            /\ UNCHANGED reviews
     ELSE IF properties[reviews[id].property].createdBy # u
       THEN /\ last' = Resp("replyToReview", 401, NoVal)
            /\ UNCHANGED reviews
     ELSE IF TruthyReply(reviews[id].reply)
       THEN /\ last' = Resp("replyToReview", 400, NoVal)
            /\ UNCHANGED reviews
     ELSE /\ reviews' = [reviews EXCEPT ![id].reply = [text |-> "set", user |-> u]]
          /\ last' = Resp("replyToReview", 200, NoVal)

(* review.reply.user is read before the role: unset, its toString() throws; *)
(* set, the pre(/^find/) hook has populated it                              *)
deleteReviewReply(u, id) ==
  /\ UNCHANGED <<accounts, properties, bookings, nextId, inflight>>
  /\ IF id \notin Reviewed
       THEN /\ last' = Resp("deleteReviewReply", 404, NoVal)
            /\ UNCHANGED reviews
     ELSE IF properties[reviews[id].property].createdBy # u /\ Role(u) # "admin"
       THEN /\ last' = Resp("deleteReviewReply", 401, NoVal)
            /\ UNCHANGED reviews
     ELSE IF ~TruthyReply(reviews[id].reply)
       THEN /\ last' = Resp("deleteReviewReply", 400, NoVal)
            /\ UNCHANGED reviews
     ELSE IF reviews[id].reply.user = NoVal
       THEN /\ last' = Resp("deleteReviewReply", errorHandler("TypeError"), "TypeError")
            /\ UNCHANGED reviews
     ELSE IF PopulatedToString(reviews[id].reply.user) # u /\ Role(u) # "admin"
       THEN /\ last' = Resp("deleteReviewReply", 401, NoVal)
            /\ UNCHANGED reviews
     ELSE /\ reviews' = [reviews EXCEPT ![id].reply = DefaultReply]
          /\ last' = Resp("deleteReviewReply", 200, NoVal)

-----------------------------------------------------------------------------
(* Property photos and deleteProperty; the media store (Cloudinary) is an   *)
(* input: each call to it is taken or fails                                 *)

PhotoIds == 1..MaxPhotos

(* the users who manage a property: its creator, an admin, a guest *)
Managers == {"host", "admin", "guest"}

(* the properties a photo request names: one of the registry, one unknown *)
PhotoProperties == {1, 9}

(* property owner or admin *)
MayManage(p, u) == ~(properties[p].createdBy # u /\ Role(u) # "admin")

(* images.findIndex(img => img._id.toString() === photoId), 0 for -1 *)
FindIndex(imgs, photoId) ==
  IF \E i \in 1..Len(imgs) : imgs[i].id = photoId
    THEN CHOOSE i \in 1..Len(imgs) :
           imgs[i].id = photoId /\ \A j \in 1..(i - 1) : imgs[j].id # photoId
    ELSE 0

(* images.unshift({url, publicId, isFeatured: images.length === 0}) *)
Unshift(imgs, id) ==
  <<[id |-> id, publicId |-> "set", isFeatured |-> (Len(imgs) = 0)]>> \o imgs

(* images.splice(i, 1) *)
Splice(imgs, i) == SubSeq(imgs, 1, i - 1) \o SubSeq(imgs, i + 1, Len(imgs))

propertyPhotoUpload(u, p, file, uploaded) ==
  /\ UNCHANGED <<accounts, bookings, reviews, nextId, inflight>>
  /\ IF p \notin DOMAIN properties
       THEN /\ last' = Resp("propertyPhotoUpload", 404, NoVal)
            /\ UNCHANGED properties
     ELSE IF ~MayManage(p, u)
       THEN /\ last' = Resp("propertyPhotoUpload", 401, NoVal)
            /\ UNCHANGED properties
     ELSE IF file # "image"
       THEN /\ last' = Resp("propertyPhotoUpload", 400, NoVal)
            /\ UNCHANGED properties
     ELSE IF ~uploaded
       THEN /\ last' = Resp("propertyPhotoUpload", 500, NoVal)
            /\ UNCHANGED properties
     ELSE /\ Len(properties[p].images) < MaxPhotos
          /\ LET used == {properties[p].images[i].id : i \in 1..Len(properties[p].images)}
                 id == CHOOSE x \in PhotoIds \ used : \A y \in PhotoIds \ used : x <= y
             IN properties' = [properties EXCEPT ![p].images = Unshift(@, id)]
          /\ last' = Resp("propertyPhotoUpload", 200, NoVal)

(* the removal of the photo and the hand-over of the featured flag *)
removePhoto(imgs, i) ==
  LET rest == Splice(imgs, i) IN
  IF imgs[i].isFeatured /\ Len(rest) > 0
    THEN [rest EXCEPT ![1].isFeatured = TRUE]
    ELSE rest

(* destroyed: whether the media store released the image; a failure is caught *)
deletePropertyPhoto(u, p, photoId, destroyed) ==
  /\ UNCHANGED <<accounts, bookings, reviews, nextId, inflight>>
  /\ IF p \notin DOMAIN properties
       THEN /\ last' = Resp("deletePropertyPhoto", 404, NoVal)
            /\ UNCHANGED properties
     ELSE IF ~MayManage(p, u)
       THEN /\ last' = Resp("deletePropertyPhoto", 401, NoVal)
            /\ UNCHANGED properties
     ELSE IF FindIndex(properties[p].images, photoId) = 0
       THEN /\ last' = Resp("deletePropertyPhoto", 404, "photo")
            /\ UNCHANGED properties
     ELSE /\ properties' = [properties EXCEPT
                              ![p].images = removePhoto(@, FindIndex(@, photoId))]
          /\ last' = Resp("deletePropertyPhoto", 200, NoVal)

(* the featured flag left on every image beside the target *)
feature_KeepOthers(imgs, photoId) ==
  [i \in 1..Len(imgs) |->
     [imgs[i] EXCEPT !.isFeatured = @ \/ (i = FindIndex(imgs, photoId))]]

(* every image un-featured, then the one found featured *)
feature(imgs, photoId) ==
  [i \in 1..Len(imgs) |->
     [imgs[i] EXCEPT !.isFeatured = (i = FindIndex(imgs, photoId))]]

setFeaturedPhoto(u, p, photoId) ==
  /\ UNCHANGED <<accounts, bookings, reviews, nextId, inflight>>
  /\ IF p \notin DOMAIN properties
       THEN /\ last' = Resp("setFeaturedPhoto", 404, NoVal)
            /\ UNCHANGED properties
     ELSE IF ~MayManage(p, u)
       THEN /\ last' = Resp("setFeaturedPhoto", 401, NoVal)
            /\ UNCHANGED properties
     ELSE IF FindIndex(properties[p].images, photoId) = 0
       THEN /\ last' = Resp("setFeaturedPhoto", 404, "photo")
            /\ UNCHANGED properties
     ELSE /\ properties' = [properties EXCEPT ![p].images = feature(@, photoId)]
          /\ last' = Resp("setFeaturedPhoto", 200, NoVal)

(* destroyed: whether the media store released every image; the loop over *)
(* the images awaits each release outside any try                         *)
deleteProperty(u, p, destroyed) ==
  /\ UNCHANGED <<accounts, bookings, reviews, nextId, inflight>>
  /\ IF p \notin DOMAIN properties
       THEN /\ last' = Resp("deleteProperty", 404, NoVal)
            /\ UNCHANGED properties
     ELSE IF ~MayManage(p, u)
       THEN /\ last' = Resp("deleteProperty", 401, NoVal)
            /\ UNCHANGED properties
     ELSE IF ~destroyed /\ \E i \in 1..Len(properties[p].images) :
                              properties[p].images[i].publicId # NoVal
       THEN /\ last' = Resp("deleteProperty", errorHandler("Error"), "Error")
            /\ UNCHANGED properties
     ELSE /\ properties' = Without(properties, p)
          /\ last' = Resp("deleteProperty", 200, NoVal)

-----------------------------------------------------------------------------
(* Auth routes: register, login, updateRole. An account is known by its uid, *)
(* which stands for its email as well                                        *)

Passwords == {"right", "wrong"}

(* the emails a request names: the users' and one no account can have *)
Emails == Users \cup {"nobody"}

RequestedRoles == {"user", "admin", "manager"}

(* the bearer of a request: an account's valid token, or none *)
Bearers == Users \cup {NoVal}

(* firebaseAuth: the token verifies for an existing account *)
firebaseAuth(u) == u \in DOMAIN accounts

(* req.user.role: the token's role claim, 'user' when absent *)
TokenRole(u) == accounts[u].role

(* auth.createUser rejects an email already in use *)
register(email, password) ==
  /\ UNCHANGED <<properties, bookings, reviews, nextId, inflight>>
  /\ IF email \in DOMAIN accounts \/ email \notin Users
       THEN /\ last' = Resp("register", 400, NoVal)
            /\ UNCHANGED accounts
       ELSE /\ accounts' = With(accounts, email, [password |-> password, role |-> "user"])
            /\ last' = Resp("register", 201, NoVal)

(* auth.getUserByEmail rejects an unknown email; req.body.password is not read again *)
login(email, password) ==
  /\ UNCHANGED <<properties, bookings, reviews, nextId, inflight, accounts>>
  /\ IF email \notin DOMAIN accounts
       THEN last' = Resp("login", 401, NoVal)
       ELSE last' = Resp("login", 200, "token")

(* router.use(firebaseAuth), then updateRole: setCustomUserClaims rejects an *)
(* unknown uid                                                               *)
updateRole(u, id, role) ==
  /\ UNCHANGED <<properties, bookings, reviews, nextId, inflight>>
  /\ IF ~firebaseAuth(u)
       THEN /\ last' = Resp("updateRole", 401, NoVal)
            /\ UNCHANGED accounts
     ELSE IF id \notin DOMAIN accounts
       THEN /\ last' = Resp("updateRole", errorHandler("Error"), "Error")
            /\ UNCHANGED accounts
     ELSE /\ accounts' = [accounts EXCEPT ![id].role = role]
          /\ last' = Resp("updateRole", 200, NoVal)

-----------------------------------------------------------------------------
(* Requests handled one at a time, each to completion *)

Init ==
  /\ properties \in Registries
  /\ bookings = [id \in {} |-> NoVal]
  /\ nextId = 1
  /\ last = Resp(NoVal, 0, NoVal)
  /\ inflight = [k \in {} |-> NoVal]
  /\ reviews = [r \in {} |-> NoVal]
  /\ accounts = [u \in {"guest", "admin"} |-> [password |-> "right", role |-> Role(u)]]

(* the availability ledger: every date range, date edits and re-opened bookings *)
Next ==
  \/ \E u \in Guests, p \in RequestedPropertyIds, s \in Dates, e \in Dates :
       createBooking(u, p, s, e, PlainBody)
  \/ \E u \in Users, id \in BookingIds, patch \in DatePatches \cup ReopenPatches :
       updateBooking(u, id, patch)
  \/ \E u \in Users, id \in BookingIds, now \in Nows : cancelBooking(u, id, now)
  \/ \E u \in Users, id \in BookingIds : deleteBooking(u, id)

Spec == Init /\ [][Next]_vars

(* the stays placed while the lifecycle is exercised: two back-to-back ranges *)
Stays == {<<1, 2>>, <<2, 3>>}

(* the booking lifecycle: every handler, every body and status patch *)
NextLifecycle ==
  \/ \E u \in Guests, st \in Stays, body \in CreateBodies :
       createBooking(u, 1, st[1], st[2], body)
  \/ \E u \in Users, id \in BookingIds, patch \in StatusPatches : updateBooking(u, id, patch)
  \/ \E u \in Users, id \in BookingIds, now \in Nows : cancelBooking(u, id, now)
  \/ \E u \in Users, id \in BookingIds : deleteBooking(u, id)
  \/ \E u \in Users, id \in BookingIds, up \in Uploads :
       uploadPaymentProof(u, id, up[1], up[2])
  \/ \E u \in Users, id \in BookingIds : verifyPayment(u, id)
  \/ \E u \in Users, id \in BookingIds : checkIn(u, id)
  \/ \E u \in Users, id \in BookingIds : checkOut(u, id)

(* the lifecycle runs on a property whose window is open-ended *)
InitLifecycle == Init /\ properties[1].availableTo = Nil

SpecLifecycle == InitLifecycle /\ [][NextLifecycle]_vars

(* the status walk: one stay placed and re-placed, under every handler that *)
(* writes or tests a booking's status, called by its guest and by an admin  *)
Callers == {"guest", "admin"}

NextStatus ==
  \/ \E u \in Guests, body \in CreateBodies : createBooking(u, 1, 1, 2, body)
  \/ \E u \in Callers, id \in BookingIds, patch \in StatusPatches : updateBooking(u, id, patch)
  \/ \E u \in Callers, id \in BookingIds, now \in Nows : cancelBooking(u, id, now)
  \/ \E u \in Callers, id \in BookingIds : deleteBooking(u, id)
  \/ \E u \in Callers, id \in BookingIds : verifyPayment(u, id)
  \/ \E u \in Callers, id \in BookingIds : checkIn(u, id)
  \/ \E u \in Callers, id \in BookingIds : checkOut(u, id)

SpecStatus == InitLifecycle /\ [][NextStatus]_vars

(* payment: one stay placed, cancelled and re-placed, its proof uploaded and *)
(* verified by every kind of caller, its stored price zeroed by a patch      *)
NextPayment ==
  \/ \E u \in Guests, body \in FinalBodies : createBooking(u, 1, 1, 2, body)
  \/ \E u \in Callers, id \in BookingIds, patch \in ZeroPricePatches : updateBooking(u, id, patch)
  \/ \E u \in Callers, id \in BookingIds, now \in Nows : cancelBooking(u, id, now)
  \/ \E u \in Users, id \in BookingIds, up \in Uploads :
       uploadPaymentProof(u, id, up[1], up[2])
  \/ \E u \in Users, id \in BookingIds : verifyPayment(u, id)
  \/ \E u \in Users, id \in BookingIds : checkIn(u, id)
  \/ \E u \in Users, id \in BookingIds : checkOut(u, id)

SpecPayment == InitLifecycle /\ [][NextPayment]_vars

(* reviews: one stay placed, plain or born completed, and the reviews written *)
(* about the properties, naming any booking id                                *)
NextReviews ==
  \/ \E u \in Guests, body \in FinalBodies : createBooking(u, 1, 1, 2, body)
  \/ \E u \in Reviewers, p \in RequestedPropertyIds, body \in ReviewBodies : addReview(u, p, body)
  \/ \E u \in Reviewers, id \in ReviewIds, body \in ReviewPatches : updateReview(u, id, body)
  \/ \E u \in Reviewers, id \in ReviewIds : deleteReview(u, id)

SpecReviews == InitLifecycle /\ [][NextReviews]_vars

(* replies: reviews written by an admin and by a guest with a completed stay, *)
(* replied to and un-replied by the owner, an admin and the guest            *)
NextReplies ==
  \/ \E u \in Guests, body \in FinalBodies : createBooking(u, 1, 1, 2, body)
  \/ \E u \in Reviewers, p \in PropertyIds, body \in ReviewBodies : addReview(u, p, body)
  \/ \E u \in Reviewers, id \in ReviewIds : deleteReview(u, id)
  \/ \E u \in Repliers, id \in ReviewIds : replyToReview(u, id)
  \/ \E u \in Repliers, id \in ReviewIds : deleteReviewReply(u, id)

SpecReplies == InitLifecycle /\ [][NextReplies]_vars

(* photos: the images of one property uploaded, removed and featured, and *)
(* the property deleted, with the media store taking or failing each call *)
NextPhotos ==
  \/ \E u \in Managers, p \in PhotoProperties, up \in Uploads :
       propertyPhotoUpload(u, p, up[1], up[2])
  \/ \E u \in Managers, p \in PhotoProperties, photoId \in PhotoIds, destroyed \in BOOLEAN :
       deletePropertyPhoto(u, p, photoId, destroyed)
  \/ \E u \in Managers, p \in PhotoProperties, photoId \in PhotoIds :
       setFeaturedPhoto(u, p, photoId)
  \/ \E u \in Managers, p \in PhotoProperties, destroyed \in BOOLEAN :
       deleteProperty(u, p, destroyed)

SpecPhotos == InitLifecycle /\ [][NextPhotos]_vars

(* auth: accounts registered, logged into and given roles *)
NextAuth ==
  \/ \E email \in Emails, password \in Passwords : register(email, password)
  \/ \E email \in Emails, password \in Passwords : login(email, password)
  \/ \E u \in Bearers, id \in Users, role \in RequestedRoles : updateRole(u, id, role)

SpecAuth == InitLifecycle /\ [][NextAuth]_vars

(* pricing: bookings placed and edited, the patch carrying dates or other fields *)
NextPricing ==
  \/ \E u \in Guests, p \in RequestedPropertyIds, s \in Dates, e \in Dates :
       createBooking(u, p, s, e, PlainBody)
  \/ \E u \in Users, id \in BookingIds,
        patch \in [startDate : Dates \cup {Nil}, endDate : Dates \cup {Nil},
                   status : {NoVal}, totalPrice : {Nil} \cup BogusPrices] :
       updateBooking(u, id, patch)

SpecPricing == Init /\ [][NextPricing]_vars

-----------------------------------------------------------------------------
(* Requests in flight together: a handler gives way at each await, so the   *)
(* availability read and the write of one request are separate steps        *)

Slots == 1..MaxInflight

(* well-formed stays *)
ValidStays == {st \in Dates \X Dates : st[1] < st[2]}

Request(op, u, p, id, s, e, body) ==
  [op |-> op, user |-> u, property |-> p, id |-> id, startDate |-> s, endDate |-> e,
   body |-> body]

(* createBooking up to the await of Booking.create *)
createBookingBegin(k, u, p, s, e) ==
  /\ k \notin DOMAIN inflight
  /\ UNCHANGED <<accounts, properties, reviews, bookings, nextId>>
  /\ IF createBookingRead(p, s, e) # 0
       THEN /\ last' = Resp("createBooking", createBookingRead(p, s, e), NoVal)
            /\ UNCHANGED inflight
       ELSE /\ inflight' = With(inflight, k, Request("createBooking", u, p, Nil, s, e, PlainBody))
            /\ UNCHANGED last

(* createBooking from Booking.create on *)
createBookingEnd(k) ==
  /\ k \in DOMAIN inflight
  /\ inflight[k].op = "createBooking"
  /\ createBookingWrite(inflight[k].user, inflight[k].property,
                        inflight[k].startDate, inflight[k].endDate, inflight[k].body)
  /\ inflight' = Without(inflight, k)
  /\ UNCHANGED <<accounts, properties, reviews>>

(* updateBooking up to the await of Booking.findByIdAndUpdate *)
updateBookingBegin(k, u, id, patch) ==
  /\ k \notin DOMAIN inflight
  /\ UNCHANGED <<accounts, properties, reviews, bookings, nextId>>
  /\ IF updateBookingRead(u, id, patch) # 0
       THEN /\ last' = Resp("updateBooking", updateBookingRead(u, id, patch), NoVal)
            /\ UNCHANGED inflight
       ELSE /\ inflight' = With(inflight, k,
                                Request("updateBooking", u, bookings[id].property, id,
                                        patch.startDate, patch.endDate,
                                        UpdateBody(bookings[id], patch)))
            /\ UNCHANGED last

(* updateBooking from Booking.findByIdAndUpdate on *)
updateBookingEnd(k) ==
  /\ k \in DOMAIN inflight
  /\ inflight[k].op = "updateBooking"
  /\ updateBookingWrite(inflight[k].id, inflight[k].body)
  /\ inflight' = Without(inflight, k)
  /\ UNCHANGED <<accounts, properties, reviews>>

(* date edits to a well-formed stay *)
StayPatches == {pt \in DatePatches : <<pt.startDate, pt.endDate>> \in ValidStays}

NextConc ==
  \/ \E k \in Slots, u \in Guests, st \in ValidStays : createBookingBegin(k, u, 1, st[1], st[2])
  \/ \E k \in Slots : createBookingEnd(k)
  \/ \E k \in Slots, u \in Guests, id \in BookingIds, patch \in StayPatches :
       updateBookingBegin(k, u, id, patch)
  \/ \E k \in Slots : updateBookingEnd(k)

SpecConc == Init /\ [][NextConc]_vars

-----------------------------------------------------------------------------
(* Review requests in flight together. A write to the Review collection is   *)
(* followed by rating recomputations, each an aggregate read and, after an   *)
(* await, a write to the property: the post('save') hook's is started and    *)
(* not awaited, the post(/^findOneAnd/) hook's is awaited before the         *)
(* handler's own, and the response is sent after the handler's own           *)

TaskSlots == 1..MaxTasks

FreeSlots == TaskSlots \ DOMAIN inflight

(* the n-th free slot, counted from the lowest *)
FreeSlot(n) == CHOOSE k \in FreeSlots : Cardinality({j \in FreeSlots : j < k}) = n - 1

(* a recomputation about to read: of the model hook or of the controller;  *)
(* chained: the controller's follows this one; code: the response it sends *)
Task(kind, p, op, code, chained) ==
  [op |-> op, kind |-> kind, property |-> p, stage |-> "read", code |-> code,
   chained |-> chained, stats |-> [n |-> 0]]

(* the bodies and patches of the concurrent review requests *)
ConcReviewBodies == [booking : BookingIds, rating : {1, 4}]
ConcReviewPatches == [booking : {Nil}, rating : {1, 4}]

(* addReview up to the return of Review.create: post('save') has started *)
(* calcAverageRatings, the handler goes on to calculateAverageRating      *)
addReviewBegin(u, p, body) ==
  /\ UNCHANGED <<accounts, properties, bookings, nextId>>
  /\ IF p \notin DOMAIN properties
       THEN /\ last' = Resp("addReview", 404, NoVal)
            /\ UNCHANGED <<reviews, inflight>>
     ELSE IF ~HasCompletedBooking(u, p) /\ Role(u) # "admin"
       THEN /\ last' = Resp("addReview", 401, NoVal)
            /\ UNCHANGED <<reviews, inflight>>
     ELSE IF HasReviewed(u, p)
       THEN /\ last' = Resp("addReview", 400, "reviewed")
            /\ UNCHANGED <<reviews, inflight>>
     ELSE IF ~ValidatesReview(NewReview(u, p, body))
       THEN /\ last' = Resp("addReview", errorHandler("ValidationError"), "ValidationError")
            /\ UNCHANGED <<reviews, inflight>>
     ELSE /\ ReviewIds \ Reviewed # {}
          /\ Cardinality(FreeSlots) >= 2
          /\ LET rid == CHOOSE x \in ReviewIds \ Reviewed :
                           \A y \in ReviewIds \ Reviewed : x <= y
                 revs == With(reviews, rid, NewReview(u, p, body))
             IN IF ~UniqueIndex(revs)
                  THEN /\ last' = Resp("addReview", errorHandler("E11000"), "E11000")
                       /\ UNCHANGED <<reviews, inflight>>
                  ELSE /\ reviews' = revs
                       /\ inflight' =
                            With(With(inflight, FreeSlot(1),
                                      Task("hook", p, "addReview", 0, FALSE)),
                                 FreeSlot(2), Task("controller", p, "addReview", 201, FALSE))
                       /\ UNCHANGED last

(* updateReview up to the return of findByIdAndUpdate's query: the *)
(* post(/^findOneAnd/) hook runs before the handler goes on        *)
updateReviewBegin(u, id, body) ==
  /\ UNCHANGED <<accounts, properties, bookings, nextId>>
  /\ IF id \notin Reviewed
       THEN /\ last' = Resp("updateReview", 404, NoVal)
            /\ UNCHANGED <<reviews, inflight>>
     ELSE IF PopulatedToString(reviews[id].user) # u /\ Role(u) # "admin"
       THEN /\ last' = Resp("updateReview", 401, NoVal)
            /\ UNCHANGED <<reviews, inflight>>
     ELSE IF ~ValidatesReview(ApplyReviewPatch(reviews[id], body))
       THEN /\ last' = Resp("updateReview", errorHandler("ValidationError"), "ValidationError")
            /\ UNCHANGED <<reviews, inflight>>
     ELSE /\ FreeSlots # {}
          /\ LET revs == [reviews EXCEPT ![id] = ApplyReviewPatch(@, body)] IN
             IF ~UniqueIndex(revs)
               THEN /\ last' = Resp("updateReview", errorHandler("E11000"), "E11000")
                    /\ UNCHANGED <<reviews, inflight>>
               ELSE /\ reviews' = revs
                    /\ inflight' = With(inflight, FreeSlot(1),
                                        Task("hook", revs[id].property, "updateReview", 200, TRUE))
                    /\ UNCHANGED last

(* deleteReview up to the return of review.remove() *)
deleteReviewBegin(u, id) ==
  /\ UNCHANGED <<accounts, properties, bookings, nextId>>
  /\ IF id \notin Reviewed
       THEN /\ last' = Resp("deleteReview", 404, NoVal)
            /\ UNCHANGED <<reviews, inflight>>
     ELSE IF PopulatedToString(reviews[id].user) # u /\ Role(u) # "admin"
       THEN /\ last' = Resp("deleteReview", 401, NoVal)
            /\ UNCHANGED <<reviews, inflight>>
     ELSE /\ FreeSlots # {}
          /\ reviews' = Without(reviews, id)
          /\ inflight' = With(inflight, FreeSlot(1),
                              Task("controller", reviews[id].property, "deleteReview", 200, FALSE))
          /\ UNCHANGED last

(* the aggregate read of a recomputation *)
recomputeRead(k) ==
  /\ k \in DOMAIN inflight
  /\ inflight[k].stage = "read"
  /\ inflight' = [inflight EXCEPT
                    ![k].stage = "write",
                    ![k].stats = IF inflight[k].kind = "hook"
                                   THEN calcAverageRatings(reviews, inflight[k].property)
                                   ELSE calculateAverageRating(reviews, inflight[k].property)]
  /\ UNCHANGED <<accounts, properties, bookings, reviews, nextId, last>>

(* the Property.findByIdAndUpdate of a recomputation, and what follows it *)
recomputeWrite(k) ==
  /\ k \in DOMAIN inflight
  /\ inflight[k].stage = "write"
  /\ properties' = PropertyUpdate(properties, inflight[k].property, inflight[k].stats)
  /\ inflight' = IF inflight[k].chained
                   THEN [inflight EXCEPT
                           ![k] = Task("controller", @.property, @.op, @.code, FALSE)]
                   ELSE Without(inflight, k)
  /\ last' = IF inflight[k].kind = "controller"
               THEN Resp(inflight[k].op, inflight[k].code, NoVal)
               ELSE last
  /\ UNCHANGED <<accounts, bookings, reviews, nextId>>

(* reviews of property 1 written, edited and removed by an admin *)
NextReviewsConc ==
  \/ \E body \in ConcReviewBodies : addReviewBegin("admin", 1, body)
  \/ \E id \in ReviewIds, body \in ConcReviewPatches : updateReviewBegin("admin", id, body)
  \/ \E id \in ReviewIds : deleteReviewBegin("admin", id)
  \/ \E k \in TaskSlots : recomputeRead(k)
  \/ \E k \in TaskSlots : recomputeWrite(k)

SpecReviewsConc == InitLifecycle /\ [][NextReviewsConc]_vars

-----------------------------------------------------------------------------
(* Properties *)

(* two half-open date ranges share an instant *)
Intersects(s, e, s2, e2) == \E t \in Dates : s <= t /\ t < e /\ s2 <= t /\ t < e2

Active(id) == bookings[id].status # "cancelled"

(* some non-cancelled booking of property p occupies part of [s, e) *)
Occupied(p, s, e) ==
  \E id \in Stored :
    /\ bookings[id].property = p
    /\ Active(id)
    /\ Intersects(s, e, bookings[id].startDate, bookings[id].endDate)

(* C1: whatever the interleaving of concurrent createBooking and date-changing *)
(* updateBooking requests, no two non-cancelled bookings of one property end   *)
(* up stored with overlapping date ranges.                                     *)
C1_NoRaceDoubleBooking ==
  \A i \in Stored : \A j \in Stored :
    (i < j /\ bookings[i].property = bookings[j].property /\ Active(i) /\ Active(j))
      => ~Intersects(bookings[i].startDate, bookings[i].endDate,
                     bookings[j].startDate, bookings[j].endDate)

(* C2: with requests handled one at a time, no two stored non-cancelled        *)
(* bookings of the same property have overlapping ranges [startDate, endDate), *)
(* whatever fields the bodies and patches carry.                               *)
C2_NoOverlappingBookings ==
  \A i \in Stored : \A j \in Stored \ {i} :
    (bookings[i].status # "cancelled" /\ bookings[j].status # "cancelled"
       /\ bookings[i].property = bookings[j].property)
      => \A t \in Dates :
           ~(bookings[i].startDate <= t /\ t < bookings[i].endDate
               /\ bookings[j].startDate <= t /\ t < bookings[j].endDate)

(* the conditions under which the availability checker admits [s, e) on p *)
Admissible(p, s, e) ==
  /\ p \in DOMAIN properties
  /\ properties[p].isAvailable
  /\ s >= properties[p].availableFrom
  /\ (properties[p].availableTo # Nil => e <= properties[p].availableTo)
  /\ ~Occupied(p, s, e)

(* C3: createBooking is accepted exactly when the property exists, is flagged  *)
(* available, the dates lie inside its window (bounds included) and no         *)
(* non-cancelled booking of it overlaps [startDate, endDate); otherwise it is  *)
(* rejected (404 for a missing property, 400 otherwise) and nothing is stored. *)
C3_CreateAcceptedIffAdmissible ==
  [][\A u \in Guests, p \in RequestedPropertyIds, s \in Dates, e \in Dates :
       createBooking(u, p, s, e, PlainBody) =>
         IF Admissible(p, s, e)
           THEN /\ last'.code = 201
                /\ DOMAIN bookings' = Stored \cup {nextId}
                /\ bookings'[nextId].property = p
                /\ bookings'[nextId].startDate = s
                /\ bookings'[nextId].endDate = e
           ELSE /\ last'.code = (IF p \in DOMAIN properties THEN 400 ELSE 404)
                /\ bookings' = bookings]_vars

(* a well-formed range inside the window of an available property *)
InWindow(p, s, e) ==
  /\ s < e
  /\ properties[p].isAvailable
  /\ s >= properties[p].availableFrom
  /\ (properties[p].availableTo # Nil => e <= properties[p].availableTo)

(* C4: for a range inside the availability window, isAvailableForDates is true *)
(* exactly while no non-cancelled booking intersects the range: false once a   *)
(* booking covers part of it, true again once that booking is cancelled.       *)
C4_AvailableIffUnoccupied ==
  \A p \in DOMAIN properties : \A s \in Dates : \A e \in Dates :
    InWindow(p, s, e) => (isAvailableForDates(p, s, e) <=> ~Occupied(p, s, e))

(* the patch that sets both dates to the values the booking already holds *)
SameDates(b) ==
  [startDate |-> b.startDate, endDate |-> b.endDate, status |-> NoVal, totalPrice |-> Nil]

(* C5: an authorized update of a non-cancelled booking to the dates it already *)
(* holds succeeds and leaves its dates and totalPrice unchanged.               *)
C5_SameDatesUpdateSucceeds ==
  [][\A u \in Users, id \in BookingIds :
       (/\ id \in Stored
        /\ Active(id)
        /\ IsAuthorized(bookings[id], u)
        /\ updateBooking(u, id, SameDates(bookings[id])))
       => /\ last'.code = 200
          /\ bookings'[id].startDate = bookings[id].startDate
          /\ bookings'[id].endDate = bookings[id].endDate
          /\ bookings'[id].totalPrice = bookings[id].totalPrice]_vars

(* C6: every stored booking has totalPrice = property price * nights, with     *)
(* nights = ceil((endDate - startDate) / one day).                             *)
C6_TotalPriceIsPriceTimesNights ==
  \A id \in Stored :
    bookings[id].totalPrice
      = properties[bookings[id].property].price
          * Ceil(bookings[id].endDate - bookings[id].startDate, DayLen)

(* C7: every booking stored by a successful createBooking is pending, with     *)
(* payment pending and no check-in, check-out, cancellation or verified-proof  *)
(* data, whatever the request body carries.                                    *)
C7_CreatedPending ==
  [][(last'.op = "createBooking" /\ last'.code = 201 /\ nextId' = nextId + 1)
       => /\ bookings'[nextId].status = "pending"
          /\ bookings'[nextId].paymentStatus = "pending"
          /\ bookings'[nextId].checkIn = NoVal
          /\ bookings'[nextId].checkOut = NoVal
          /\ bookings'[nextId].cancelledAt = NoVal
          /\ ~bookings'[nextId].paymentProof.verified]_vars

(* the transitions of the booking state machine *)
Transitions ==
  { <<"pending", "confirmed">>, <<"confirmed", "checked_in">>, <<"checked_in", "completed">>,
    <<"pending", "cancelled">>, <<"confirmed", "cancelled">> }

(* C8: a booking's status changes only along pending -> confirmed ->           *)
(* checked_in -> completed or from pending/confirmed to cancelled; cancelled   *)
(* and completed are final, and cancelBooking is never applied to a            *)
(* checked_in, completed or cancelled booking.                                 *)
C8_StatusFollowsStateMachine ==
  [][/\ \A id \in Stored \cap DOMAIN bookings' :
          \/ bookings'[id].status = bookings[id].status
          \/ <<bookings[id].status, bookings'[id].status>> \in Transitions
     /\ \A u \in Users, id \in BookingIds, now \in Nows :
          (/\ id \in Stored
           /\ bookings[id].status \in {"checked_in", "completed", "cancelled"}
           /\ cancelBooking(u, id, now))
          => (last'.code # 200 /\ bookings' = bookings)]_vars

(* C9: checkIn on a confirmed booking succeeds and stores checked_in with a    *)
(* check-in timestamp; checkOut on a checked_in booking succeeds and stores    *)
(* completed with a check-out timestamp.                                       *)
C9_CheckInThenCheckOut ==
  [][\A u \in Users, id \in BookingIds :
       /\ (/\ authorize({"admin"}, u)
           /\ id \in Stored
           /\ bookings[id].status = "confirmed"
           /\ checkIn(u, id))
          => (/\ last'.code = 200
              /\ bookings'[id].status = "checked_in"
              /\ bookings'[id].checkIn # NoVal)
       /\ (/\ authorize({"admin"}, u)
           /\ id \in Stored
           /\ bookings[id].status = "checked_in"
           /\ checkOut(u, id))
          => (/\ last'.code = 200
              /\ bookings'[id].status = "completed"
              /\ bookings'[id].checkOut # NoVal)]_vars

(* C10: checkIn on a booking that is not confirmed, and checkOut on a booking  *)
(* that is not checked_in, is rejected with a 400 naming the current status    *)
(* and leaves the booking as it was.                                           *)
C10_WrongStatusRejected ==
  [][\A u \in Users, id \in BookingIds :
       /\ (/\ last'.op = "checkIn"
           /\ authorize({"admin"}, u)
           /\ id \in Stored
           /\ bookings[id].status # "confirmed"
           /\ checkIn(u, id))
          => (/\ last' = Resp("checkIn", 400, bookings[id].status)
              /\ bookings' = bookings)
       /\ (/\ last'.op = "checkOut"
           /\ authorize({"admin"}, u)
           /\ id \in Stored
           /\ bookings[id].status # "checked_in"
           /\ checkOut(u, id))
          => (/\ last' = Resp("checkOut", 400, bookings[id].status)
              /\ bookings' = bookings)]_vars

(* a checkOut was refused on a confirmed booking, which is still confirmed    *)
(* and carries no check-out time                                              *)
C10_Witness ==
  /\ last = Resp("checkOut", 400, "confirmed")
  /\ \E id \in Stored : bookings[id].status = "confirmed" /\ bookings[id].checkOut = NoVal

(* C11: cancelBooking by a non-admin requester or property creator is rejected, *)
(* leaving the booking unchanged, whenever fewer than 2 days (48 hours) remain *)
(* between now and startDate, and accepted when 2 days or more remain; an      *)
(* admin is never rejected by this guard.                                      *)
C11_CancelTwoDayGuard ==
  [][\A u \in Users, id \in BookingIds, now \in Nows :
       (/\ last'.op = "cancelBooking"
        /\ id \in Stored
        /\ IsAuthorized(bookings[id], u)
        /\ cancelBooking(u, id, now))
       => IF Role(u) # "admin" /\ bookings[id].startDate - now < 2 * DayLen
            THEN last'.code = 400 /\ bookings' = bookings
            ELSE last'.code = 200 /\ bookings'[id].status = "cancelled"]_vars

(* the booking's requester, the creator of the booked property, or an admin *)
Owns(b, u) ==
  \/ b.user = u
  \/ properties[b.property].createdBy = u
  \/ Role(u) = "admin"

(* C12: updateBooking, cancelBooking and deleteBooking pass authorization      *)
(* exactly when the actor is the booking's requester, the creator of the       *)
(* booked property or an admin; every other actor is rejected with the booking *)
(* unchanged, and each of the three kinds of actor can delete the booking.     *)
C12_OneOwnershipRule ==
  [][\A u \in Users, id \in BookingIds :
       id \in Stored =>
         /\ (last'.op = "deleteBooking" /\ deleteBooking(u, id))
              => IF Owns(bookings[id], u)
                   THEN last'.code = 200 /\ id \notin DOMAIN bookings'
                   ELSE last'.code >= 400 /\ bookings' = bookings
         /\ \A now \in Nows :
              (last'.op = "cancelBooking" /\ cancelBooking(u, id, now))
              => /\ Owns(bookings[id], u) <=> last'.code # 401
                 /\ ~Owns(bookings[id], u) => bookings' = bookings
         /\ \A patch \in StatusPatches :
              (last'.op = "updateBooking" /\ updateBooking(u, id, patch))
              => /\ Owns(bookings[id], u) <=> last'.code # 401
                 /\ ~Owns(bookings[id], u) => bookings' = bookings]_vars

(* C13: uploadPaymentProof with a valid image stores the proof with verified   *)
(* true and paymentStatus paid exactly when the actor is an admin; for the     *)
(* non-admin requester it stores verified false and paymentStatus pending; an  *)
(* actor who is neither requester nor admin is rejected; and no upload request *)
(* changes a booking's lifecycle status.                                       *)
C13_UploadVerifiesOnlyForAdmin ==
  [][(last'.op = "uploadPaymentProof") =>
       /\ DOMAIN bookings' = Stored
       /\ \A i \in Stored : bookings'[i].status = bookings[i].status
       /\ \A u \in Users, id \in Stored :
            uploadPaymentProof(u, id, "image", TRUE)
              => IF bookings[id].user = u \/ Role(u) = "admin"
                   THEN /\ last'.code = 200
                        /\ bookings'[id].paymentProof.url = "set"
                        /\ bookings'[id].paymentProof.verified <=> Role(u) = "admin"
                        /\ bookings'[id].paymentStatus = "paid" <=> Role(u) = "admin"
                        /\ Role(u) # "admin" => bookings'[id].paymentStatus = "pending"
                   ELSE last'.code = 401 /\ bookings' = bookings]_vars

(* an admin's upload was stored as a verified, paid proof on a booking that is *)
(* still pending                                                               *)
C13_Witness ==
  /\ last = Resp("uploadPaymentProof", 200, NoVal)
  /\ \E id \in Stored :
       /\ bookings[id].paymentProof.verifiedBy = "admin"
       /\ bookings[id].paymentProof.verified
       /\ bookings[id].paymentStatus = "paid"
       /\ bookings[id].status = "pending"

(* C14: a successful verifyPayment sets paymentProof.verified, records the     *)
(* verifier and the time, sets paymentStatus paid, and changes the status only *)
(* from pending to confirmed; every other status is kept, and the dates,       *)
(* totalPrice and cancellation data are unchanged.                             *)
C14_VerifyFrame ==
  [][(last'.op = "verifyPayment" /\ last'.code = 200) =>
       \A u \in Users, id \in Stored :
         verifyPayment(u, id)
           => /\ bookings'[id].paymentProof.verified
              /\ bookings'[id].paymentProof.verifiedBy = u
              /\ bookings'[id].paymentProof.verifiedAt = "set"
              /\ bookings'[id].paymentStatus = "paid"
              /\ bookings'[id].status
                   = IF bookings[id].status = "pending" THEN "confirmed" ELSE bookings[id].status
              /\ bookings'[id].startDate = bookings[id].startDate
              /\ bookings'[id].endDate = bookings[id].endDate
              /\ bookings'[id].totalPrice = bookings[id].totalPrice
              /\ bookings'[id].cancelledAt = bookings[id].cancelledAt]_vars

(* C15: verifyPayment on a booking to which no payment proof was ever attached *)
(* is rejected with a 400 and leaves paymentStatus, paymentProof and status    *)
(* unchanged.                                                                  *)
C15_VerifyNeedsProof ==
  [][(last'.op = "verifyPayment") =>
       \A u \in Users, id \in Stored :
         (/\ authorize({"admin"}, u)
          /\ bookings[id].paymentProof.url = NoVal
          /\ verifyPayment(u, id))
         => /\ last'.code = 400
            /\ bookings'[id].paymentStatus = bookings[id].paymentStatus
            /\ bookings'[id].paymentProof = bookings[id].paymentProof
            /\ bookings'[id].status = bookings[id].status]_vars

(* C16: a caller whose role is not admin never gets a success response from    *)
(* verify-payment, check-in or check-out: the request ends in an authorization *)
(* failure and no booking's status, paymentStatus or paymentProof changes.     *)
C16_AdminRoutesRefuseOthers ==
  [][(last'.op \in {"verifyPayment", "checkIn", "checkOut"}) =>
       \A u \in Users, id \in BookingIds :
         (/\ Role(u) # "admin"
          /\ (verifyPayment(u, id) \/ checkIn(u, id) \/ checkOut(u, id)))
         => /\ last'.code \in {401, 403}
            /\ DOMAIN bookings' = Stored
            /\ \A i \in Stored :
                 /\ bookings'[i].status = bookings[i].status
                 /\ bookings'[i].paymentStatus = bookings[i].paymentStatus
                 /\ bookings'[i].paymentProof = bookings[i].paymentProof]_vars

(* verify-payment was refused to a caller while a booking holds an uploaded    *)
(* proof that is still unverified and unpaid                                   *)
C16_Witness ==
  /\ last = Resp("verifyPayment", 403, NoVal)
  /\ \E id \in Stored :
       /\ bookings[id].paymentProof.url = "set"
       /\ ~bookings[id].paymentProof.verified
       /\ bookings[id].paymentStatus = "pending"
       /\ bookings[id].status = "pending"

(* C17: addReview stores a review only if the booking the review names belongs *)
(* to the reviewer, is for the reviewed property, is completed and has a       *)
(* recorded check-out; any other request is rejected and stores nothing.       *)
C17_ReviewNeedsOwnCompletedStay ==
  [][(last'.op = "addReview") =>
       \A r \in DOMAIN reviews' \ Reviewed :
         /\ reviews'[r].booking \in Stored
         /\ bookings[reviews'[r].booking].user = reviews'[r].user
         /\ bookings[reviews'[r].booking].property = reviews'[r].property
         /\ bookings[reviews'[r].booking].status = "completed"
         /\ bookings[reviews'[r].booking].checkOut # NoVal]_vars

(* C18: the review collection never holds two reviews of one (booking, user)   *)
(* pair: an addReview for a pair that already has a review is rejected and     *)
(* stores nothing, with the conflict status 400 whenever the property exists   *)
(* and the reviewer may review it (otherwise 404 or 401 comes first), and no   *)
(* updateReview produces a duplicate pair.                                     *)
C18_OneReviewPerBookingAndUser ==
  /\ [](\A i \in Reviewed : \A j \in Reviewed \ {i} :
          <<reviews[i].booking, reviews[i].user>> # <<reviews[j].booking, reviews[j].user>>)
  /\ [][(last'.op = "addReview") =>
          /\ last'.code >= 400 => reviews' = reviews
          /\ \A r \in DOMAIN reviews' \ Reviewed : \A i \in Reviewed :
               <<reviews'[r].booking, reviews'[r].user>> # <<reviews[i].booking, reviews[i].user>>
          /\ last'.code # 400 =>
               \A u \in Reviewers, p \in PropertyIds, body \in ReviewBodies :
                 ~(/\ \E r \in Reviewed : reviews[r].booking = body.booking /\ reviews[r].user = u
                   /\ HasCompletedBooking(u, p) \/ Role(u) = "admin"
                   /\ addReview(u, p, body))]_vars

(* the unique index turned down a second review of a pair that the handler's   *)
(* own per-property test had let through                                       *)
C18_Witness ==
  /\ last = Resp("addReview", 400, "E11000")
  /\ \E r \in Reviewed : reviews[r].user = "admin"

(* C19: after each successful addReview, updateReview or deleteReview the      *)
(* rating statistics stored on a reviewed property equal the aggregate of the  *)
(* Review collection: count = number of its reviews, average = their mean      *)
(* rounded up to one decimal (here in tenths); every stored rating is in 1..5. *)
C19_StoredRatingIsAggregate ==
  /\ \A r \in Reviewed : reviews[r].rating >= 1 /\ reviews[r].rating <= 5
  /\ \A p \in PropertyIds :
       Matching(reviews, p) # {}
         => /\ {"averageRating", "numberOfReviews"} \subseteq DOMAIN properties[p]
            /\ properties[p].numberOfReviews = Cardinality(Matching(reviews, p))
            /\ properties[p].averageRating
                 = Ceil(10 * SumRatings(reviews, Matching(reviews, p)),
                        Cardinality(Matching(reviews, p)))

(* C20: when deleteReview removes the only remaining review of a property, the *)
(* property's stored aggregate becomes count 0 and average 4.5 (45 tenths, or  *)
(* the fraction 9 / 2), not 0.                                                 *)
C20_LastReviewDeletedGivesBaseline ==
  [][(last'.op = "deleteReview" /\ last'.code = 200) =>
       \A p \in PropertyIds :
         (Matching(reviews, p) # {} /\ Matching(reviews', p) = {})
           => \/ /\ {"averageRating", "numberOfReviews"} \subseteq DOMAIN properties'[p]
                 /\ properties'[p].numberOfReviews = 0
                 /\ properties'[p].averageRating = 45
              \/ /\ {"ratingsAverage", "ratingsQuantity"} \subseteq DOMAIN properties'[p]
                 /\ properties'[p].ratingsQuantity = 0
                 /\ 2 * properties'[p].ratingsAverage.num = 9 * properties'[p].ratingsAverage.den]_vars

-----------------------------------------------------------------------------
(* C21: a review carries at most one reply. replyToReview by the owner of    *)
(* the reviewed property succeeds on a review that has no reply and stores   *)
(* it; while a reply exists every replyToReview is rejected and changes      *)
(* nothing; a successful deleteReviewReply leaves the review without reply;  *)
(* a caller who is not the property's owner never changes a reply.           *)
HasReply(r) == r.reply.user # NoVal

C21_SingleReplyPerReview ==
  [][/\ (last'.op = "replyToReview") =>
          \A u \in Repliers, id \in Reviewed :
            replyToReview(u, id) =>
              /\ (properties[reviews[id].property].createdBy = u /\ ~HasReply(reviews[id]))
                   => (last'.code = 200 /\ reviews'[id].reply.user = u)
              /\ HasReply(reviews[id]) => (last'.code >= 400 /\ reviews' = reviews)
              /\ properties[reviews[id].property].createdBy # u => reviews' = reviews
     /\ (last'.op = "deleteReviewReply" /\ last'.code = 200) =>
          \A id \in Reviewed : reviews'[id] # reviews[id] => ~HasReply(reviews'[id])]_vars

-----------------------------------------------------------------------------
(* C22: on a property that starts with no images, after any sequence of     *)
(* photo uploads, photo deletions and setFeaturedPhoto calls at most one     *)
(* image is featured, and exactly one whenever the list is non-empty; the    *)
(* first image added to an empty list is featured, removing the featured     *)
(* image while others remain features the new first image, and               *)
(* setFeaturedPhoto leaves only its target featured.                         *)
Featured(imgs) == {i \in 1..Len(imgs) : imgs[i].isFeatured}

C22_OneFeaturedPhoto ==
  /\ [](\A p \in DOMAIN properties :
          /\ Cardinality(Featured(properties[p].images)) <= 1
          /\ Len(properties[p].images) > 0 => Cardinality(Featured(properties[p].images)) = 1)
  /\ [][(last'.code = 200 /\ 1 \in DOMAIN properties') =>
          LET a == properties[1].images
              b == properties'[1].images
          IN /\ (last'.op = "propertyPhotoUpload" /\ Len(a) = 0) =>
                  (Len(b) = 1 /\ b[1].isFeatured)
             /\ (last'.op = "deletePropertyPhoto" /\ Len(b) > 0) =>
                  ((\A i \in 1..Len(b) : \A j \in Featured(a) : b[i].id # a[j].id)
                     => Featured(b) = {1})
             /\ (last'.op = "setFeaturedPhoto") =>
                  \A u \in Managers, photoId \in PhotoIds :
                    setFeaturedPhoto(u, 1, photoId) =>
                      Featured(b) = {FindIndex(b, photoId)}]_vars

(* a featured image that is not the first of several, left by setFeaturedPhoto *)
C22_Witness ==
  /\ last = Resp("setFeaturedPhoto", 200, NoVal)
  /\ 1 \in DOMAIN properties
  /\ Len(properties[1].images) >= 2
  /\ ~properties[1].images[1].isFeatured

-----------------------------------------------------------------------------
(* C23: deleteProperty by the creator or an admin removes the property even  *)
(* when the media store fails to release one of its images: the failure      *)
(* never aborts the removal and never surfaces as a failure of the request.  *)
C23_DeleteSurvivesMediaFailure ==
  [][(last'.op = "deleteProperty") =>
       \A u \in Managers, p \in DOMAIN properties, destroyed \in BOOLEAN :
         (MayManage(p, u) /\ deleteProperty(u, p, destroyed)) =>
           (last'.code = 200 /\ p \notin DOMAIN properties')]_vars

-----------------------------------------------------------------------------
(* C24: PUT /auth/updaterole/:id is admin only: a request from an            *)
(* authenticated caller whose role is not admin is refused with 403 and      *)
(* changes no user's role.                                                   *)
C24_UpdateRoleAdminOnly ==
  [][(last'.op = "updateRole") =>
       \A u \in DOMAIN accounts, id \in Users, role \in RequestedRoles :
         (TokenRole(u) # "admin" /\ updateRole(u, id, role)) =>
           (last'.code = 403 /\ accounts' = accounts)]_vars

-----------------------------------------------------------------------------
(* C25: login returns a token only for a registered email presented with     *)
(* that account's password; an existing email with another password, or an   *)
(* unknown email, is answered 401 and gets no token.                         *)
C25_LoginChecksCredentials ==
  [][(last'.op = "login") =>
       \A email \in Emails, password \in Passwords :
         login(email, password) =>
           IF email \in DOMAIN accounts /\ accounts[email].password = password
             THEN last'.code = 200 /\ last'.detail = "token"
             ELSE last'.code = 401 /\ last'.detail # "token"]_vars

-----------------------------------------------------------------------------
(* C26: for every candidate range [s, e) the handlers take and every stored  *)
(* booking range [s2, e2), the three-clause conflict test answers as the     *)
(* single overlap predicate s < e2 /\ e > s2, boundary dates included; and   *)
(* isAvailableForDates and isDateRangeAvailable agree on the conflicts of    *)
(* every such range (inside the window of an available property, no booking  *)
(* excluded).                                                                *)
C26_ConflictTestIsOverlap ==
  /\ \A id \in Stored : \A s \in Dates : \A e \in Dates :
       Conflicts(bookings[id], s, e) <=> (s < bookings[id].endDate /\ e > bookings[id].startDate)
  /\ \A p \in DOMAIN properties : \A s \in Dates : \A e \in Dates :
       (/\ properties[p].isAvailable
        /\ s >= properties[p].availableFrom
        /\ (properties[p].availableTo # Nil => e <= properties[p].availableTo))
       => (isAvailableForDates(p, s, e) <=> isDateRangeAvailable(p, s, e, Nil))

-----------------------------------------------------------------------------
(* C27: an updateBooking that changes a date re-runs the whole availability  *)
(* check with the booking itself excluded: it is rejected, the booking left  *)
(* unchanged, when the property is flagged unavailable, the new startDate    *)
(* precedes availableFrom, the new endDate exceeds a set availableTo, or     *)
(* another non-cancelled booking overlaps; so every non-cancelled booking's  *)
(* dates lie inside its property's availability window.                      *)
WithinWindow(p, s, e) ==
  /\ properties[p].isAvailable
  /\ s >= properties[p].availableFrom
  /\ (properties[p].availableTo # Nil => e <= properties[p].availableTo)

C27_UpdateRechecksAvailability ==
  /\ [](\A id \in Stored :
          Active(id) => WithinWindow(bookings[id].property, bookings[id].startDate,
                                     bookings[id].endDate))
  /\ [][(last'.op = "updateBooking") =>
          \A u \in Users, id \in Stored, patch \in DatePatches :
            (/\ patch.startDate # Nil \/ patch.endDate # Nil
             /\ IsAuthorized(bookings[id], u)
             /\ updateBooking(u, id, patch))
            => LET s == Or(patch.startDate, bookings[id].startDate)
                   e == Or(patch.endDate, bookings[id].endDate)
                   p == bookings[id].property
               IN (\/ ~WithinWindow(p, s, e)
                   \/ \E j \in Stored \ {id} :
                        /\ bookings[j].property = p
                        /\ Active(j)
                        /\ Intersects(s, e, bookings[j].startDate, bookings[j].endDate))
                  => (last'.code >= 400 /\ bookings' = bookings)]_vars

-----------------------------------------------------------------------------
(* C28: every stored booking has startDate < endDate in every reachable      *)
(* state: createBooking with endDate <= startDate, and an updateBooking that *)
(* leaves endDate <= startDate, are rejected and store nothing.              *)
C28_StartBeforeEnd ==
  \A id \in Stored : bookings[id].startDate < bookings[id].endDate

-----------------------------------------------------------------------------
(* C29: payment verification is not undone by a later upload: once a booking *)
(* has paymentStatus paid and paymentProof.verified true, an                 *)
(* uploadPaymentProof leaves it paid and verified.                           *)
PaidAndVerified(b) == b.paymentStatus = "paid" /\ b.paymentProof.verified

C29_UploadKeepsVerification ==
  [][(last'.op = "uploadPaymentProof") =>
       \A id \in Stored : PaidAndVerified(bookings[id]) => PaidAndVerified(bookings'[id])]_vars

(* C29 as amended: a successful uploadPaymentProof by the non-admin requester *)
(* on a paid and verified booking sets paymentStatus back to pending and      *)
(* verified to false and leaves status as it was; an upload that fails, or is *)
(* made by an admin, leaves the booking paid and verified.                    *)
C29_RequesterUploadResetsVerification ==
  [][(last'.op = "uploadPaymentProof") =>
       \A id \in Stored :
         PaidAndVerified(bookings[id]) =>
           /\ \A u \in Users :
                (Role(u) # "admin" /\ uploadPaymentProof(u, id, "image", TRUE)
                   /\ last'.code = 200)
                => /\ bookings'[id].paymentStatus = "pending"
                   /\ ~bookings'[id].paymentProof.verified
                   /\ bookings'[id].status = bookings[id].status
           /\ last'.code # 200 => bookings'[id] = bookings[id]
           /\ (\A u \in Users : uploadPaymentProof(u, id, "image", TRUE) => Role(u) = "admin")
                => PaidAndVerified(bookings'[id])]_vars

(* a booking confirmed by verification, then left pending by its guest's upload *)
C29_Witness ==
  /\ last = Resp("uploadPaymentProof", 200, NoVal)
  /\ \E id \in Stored :
       /\ bookings[id].status = "confirmed"
       /\ bookings[id].paymentStatus = "pending"
       /\ bookings[id].paymentProof.url = "set"
       /\ ~bookings[id].paymentProof.verified

-----------------------------------------------------------------------------
(* C30: once every concurrent addReview, updateReview and deleteReview on a  *)
(* property has completed, the rating recomputations they started included,  *)
(* the count and average stored on the property are the count and mean       *)
(* (rounded up to one decimal, in tenths) of the reviews then present.       *)
C30_CompletedRecomputationsAgree ==
  (DOMAIN inflight = {}) =>
    \A p \in DOMAIN properties :
      Matching(reviews, p) # {}
        => /\ {"averageRating", "numberOfReviews"} \subseteq DOMAIN properties[p]
           /\ properties[p].numberOfReviews = Cardinality(Matching(reviews, p))
           /\ properties[p].averageRating
                = Ceil(10 * SumRatings(reviews, Matching(reviews, p)),
                       Cardinality(Matching(reviews, p)))

====
